---- MODULE Spec2Model ----
(***************************************************************************)
(* DPLL satisfiability search of DPLL.ipynb: DPLLSatisfiable builds the    *)
(* symbol heap and the all-'Free' model, DPLL is the recursive search.     *)
(* The recursion is modelled by an explicit stack of frames; the heap      *)
(* `symbols` and the dictionary `model` are shared by all frames, as the   *)
(* Python objects are.                                                      *)
(***************************************************************************)
EXTENDS Integers, Sequences, FiniteSets, TLC

\* Number of distinct literal names; name n stands for the n-th name in
\* lexicographic order ("A" < "B" < ...), the order Literal.__lt__ uses.
NumSyms == 2
\* Largest number of clauses of a knowledge base.
MaxClauses == 4

Names == 1..NumSyms

\* class Literal: a name and a sign (True = positive).
Literal == [name : Names, sign : BOOLEAN]

\* A clause is a Python set of Literals.  Literal.__hash__ and __eq__ look at
\* the name only, so a set holds at most one Literal per name.
ClauseSet == {c \in SUBSET Literal : \A l1, l2 \in c : l1.name = l2.name => l1 = l2}

\* A knowledge base is a list of clauses.
KBs == UNION {[1..n -> ClauseSet] : n \in 0..MaxClauses}

\* class QueueImportance(Enum)
PURE == 1
UNIT == 2
REST == 3

\* Largest number of literals written in one clause display {l1, l2, ...}.
MaxLits == 2

\* kb .. first: the program and its caller.  entered, returned, pushedBack:
\* what the invocations of DPLL found when they were entered, kept to state
\* properties about whole invocations.  eval: one call of clauseSatisfied on
\* its own.
VARIABLES kb, symbols, model, stack, ret, pc, result, kb0, first,
          entered, returned, pushedBack, eval

vars == <<kb, symbols, model, stack, ret, pc, result, kb0, first,
          entered, returned, pushedBack, eval>>

----------------------------------------------------------------------------
\* The Python set built from a clause display {l1, l2, ...}: adding a Literal
\* equal (same name) to one already in the set leaves the set as it is, so
\* the first literal written for a name is the one kept.
RECURSIVE MakeClause(_)
MakeClause(written) ==
    IF written = <<>> THEN {}
    ELSE LET n == Len(written)
             before == MakeClause(SubSeq(written, 1, n - 1))
         IN IF \E l \in before : l.name = written[n].name
            THEN before
            ELSE before \cup {written[n]}

\* The order `for literal in clause` visits a set in.  Python fixes it by the
\* hashes of the names; the model visits by name.
RECURSIVE Iteration(_)
Iteration(clause) ==
    IF clause = {} THEN <<>>
    ELSE LET l == CHOOSE x \in clause : \A y \in clause : x.name <= y.name
         IN <<l>> \o Iteration(clause \ {l})

\* The loop of clauseSatisfied with `return` on the first free literal, as
\* the comment inside the loop describes it.
RECURSIVE ScanLiteralsFreeReturns(_, _, _, _)
ScanLiteralsFreeReturns(order, m, i, clause_has_free) ==
    IF i > Len(order)
    THEN "False"
    ELSE LET literal == order[i]
         IN IF literal.name \in DOMAIN m
            THEN LET tested_literal == m[literal.name]
                 IN IF tested_literal = "Free"
                    THEN "None"
                    ELSE IF literal.sign = (tested_literal = "True")
                         THEN "True"
                         ELSE ScanLiteralsFreeReturns(order, m, i + 1, clause_has_free)
            ELSE ScanLiteralsFreeReturns(order, m, i + 1, clause_has_free)

\* The loop of clauseSatisfied over the literals in the order visited, from
\* the i-th on: "True" at the first literal whose symbol is committed to the
\* literal's sign; after the loop "None" if a literal was 'Free', else
\* "False".  The lookup model[literal] is by name (Literal.__eq__).
RECURSIVE ScanLiterals(_, _, _, _)
ScanLiterals(order, m, i, clause_has_free) ==
    IF i > Len(order)
    THEN IF clause_has_free THEN "None" ELSE "False"
    ELSE LET literal == order[i]
         IN IF literal.name \in DOMAIN m
            THEN LET tested_literal == m[literal.name]
                 IN IF tested_literal = "Free"
                    THEN ScanLiterals(order, m, i + 1, TRUE)
                    ELSE IF literal.sign
                         THEN IF tested_literal = "True"
                              THEN "True"
                              ELSE ScanLiterals(order, m, i + 1, clause_has_free)
                         ELSE IF tested_literal = "False"
                              THEN "True"
                              ELSE ScanLiterals(order, m, i + 1, clause_has_free)
            ELSE ScanLiterals(order, m, i + 1, clause_has_free)

\* clauseSatisfied(clause, model)
clauseSatisfied(clause, m) == ScanLiterals(Iteration(clause), m, 1, FALSE)

\* symbols_ranking: for every name occurring in kb, the number of clauses it
\* occurs in (a clause holds a name at most once).
symbols_ranking(clauses) ==
    LET occurring == {l.name : l \in UNION {clauses[i] : i \in DOMAIN clauses}}
    IN [s \in occurring |->
           Cardinality({i \in DOMAIN clauses : \E l \in clauses[i] : l.name = s})]

\* pure_symbols[literal]: the set of signs the name occurs with.
pure_symbols(clauses, s) ==
    {l.sign : l \in {x \in UNION {clauses[i] : i \in DOMAIN clauses} : x.name = s}}

\* unit_clauses: `unit_clauses.union(clause)` builds a new set and drops it,
\* the set itself is never updated and stays empty.
unit_clauses(clauses) == {}

\* The heap entry ((importance, -cnt), literal) pushed for a name.
QueueEntry(clauses, s) ==
    LET cnt == symbols_ranking(clauses)[s]
    IN IF Cardinality(pure_symbols(clauses, s)) = 1
       THEN [imp |-> PURE, ncnt |-> -cnt, lit |-> s]
       ELSE IF s \notin unit_clauses(clauses)
            THEN [imp |-> REST, ncnt |-> -cnt, lit |-> s]
            ELSE [imp |-> UNIT, ncnt |-> -cnt, lit |-> s]

\* Comparing two heap entries compares the tuples ((imp, -cnt), literal).
\* QueueImportance is a plain Enum: == is identity and < is not defined, so
\* the comparison raises TypeError when the importances differ.
Comparable(a, b) == a.imp = b.imp

\* a < b for comparable entries: by -cnt, then by Literal.__lt__ (name).
EntryLt(a, b) ==
    \/ a.ncnt < b.ncnt
    \/ a.ncnt = b.ncnt /\ a.lit < b.lit

\* heapq.heappush(heap, item): the new item is compared with its parent, so
\* a push onto a non-empty heap of another importance raises TypeError.  The
\* heap is kept as the set of its entries.
heappush(heap, item) ==
    IF \E e \in heap : ~Comparable(item, e)
    THEN [ok |-> FALSE, heap |-> heap]
    ELSE [ok |-> TRUE, heap |-> heap \cup {item}]

\* A pop that gives the entry with the fewest occurrences.
heappopLeast(heap) == CHOOSE e \in heap : \A f \in heap \ {e} : EntryLt(f, e)

\* heapq.heappop(heap): the smallest entry ...
heappop(heap) == CHOOSE e \in heap : \A f \in heap \ {e} : EntryLt(e, f)

\* A pop that leaves the entry in the heap.
heappopKept(heap) == heap

\* ... which heappop also takes out of the heap.
heappopRest(heap) == heap \ {heappop(heap)}

\* symbols = [] : the heap every call of DPLLSatisfiable starts from.
EmptySymbols == {}

\* The loop `for literal, cnt in symbols_ranking.items(): heappush(...)`.
RECURSIVE PushAll(_, _, _)
PushAll(heap, todo, clauses) ==
    IF todo = {} THEN [ok |-> TRUE, heap |-> heap]
    ELSE LET s == CHOOSE x \in todo : \A y \in todo : x <= y
             r == heappush(heap, QueueEntry(clauses, s))
         IN IF ~r.ok THEN r ELSE PushAll(r.heap, todo \ {s}, clauses)

\* A heap kept from an earlier call instead of being rebuilt.
BuildSymbolsCached(clauses) ==
    IF DOMAIN model = {}
    THEN PushAll(EmptySymbols, DOMAIN symbols_ranking(clauses), clauses)
    ELSE [ok |-> TRUE, heap |-> symbols]

BuildSymbols(clauses) ==
    PushAll(EmptySymbols, DOMAIN symbols_ranking(clauses), clauses)

\* model = {symbol: 'Free' for symbol in symbols_ranking.keys()}
FreeModel(clauses) == [s \in DOMAIN symbols_ranking(clauses) |-> "Free"]

\* The evaluation loop with the test for an empty unsatisfied_clauses made
\* once, after the loop.
RECURSIVE ScanClausesWhole(_, _, _, _)
ScanClausesWhole(clauses, m, i, unsatisfied_clauses) ==
    IF i > Len(clauses)
    THEN [ret |-> IF unsatisfied_clauses = <<>> /\ clauses # <<>> THEN "True" ELSE "fall",
          unsatisfied_clauses |-> unsatisfied_clauses]
    ELSE LET c == clauseSatisfied(clauses[i], m)
             u == IF c = "None" THEN Append(unsatisfied_clauses, clauses[i])
                  ELSE unsatisfied_clauses
         IN IF c = "False"
            THEN [ret |-> "False", unsatisfied_clauses |-> unsatisfied_clauses]
            ELSE ScanClausesWhole(clauses, m, i + 1, u)

\* The evaluation loop without the append of pending clauses.
RECURSIVE ScanClausesNoAppend(_, _, _, _)
ScanClausesNoAppend(clauses, m, i, unsatisfied_clauses) ==
    IF i > Len(clauses)
    THEN [ret |-> "fall", unsatisfied_clauses |-> unsatisfied_clauses]
    ELSE LET c == clauseSatisfied(clauses[i], m)
         IN IF c = "False"
            THEN [ret |-> "False", unsatisfied_clauses |-> unsatisfied_clauses]
            ELSE IF unsatisfied_clauses = <<>>
                 THEN [ret |-> "True", unsatisfied_clauses |-> unsatisfied_clauses]
                 ELSE ScanClausesNoAppend(clauses, m, i + 1, unsatisfied_clauses)

\* The evaluation loop of DPLL from clause i on: "False" at the first
\* falsified clause, "True" as soon as unsatisfied_clauses is empty after a
\* clause has been looked at, "fall" when the loop runs to its end.
RECURSIVE ScanClauses(_, _, _, _)
ScanClauses(clauses, m, i, unsatisfied_clauses) ==
    IF i > Len(clauses)
    THEN [ret |-> "fall", unsatisfied_clauses |-> unsatisfied_clauses]
    ELSE LET c == clauseSatisfied(clauses[i], m)
             u == IF c = "None" THEN Append(unsatisfied_clauses, clauses[i])
                  ELSE unsatisfied_clauses
         IN IF c = "False"
            THEN [ret |-> "False", unsatisfied_clauses |-> unsatisfied_clauses]
            ELSE IF u = <<>>
                 THEN [ret |-> "True", unsatisfied_clauses |-> u]
                 ELSE ScanClauses(clauses, m, i + 1, u)

\* A commitment that is not written to the model.
CommitDropped(m, P, v) == m

\* model[P] = True / model[P] = False
Commit(m, P, v) == [m EXCEPT ![P] = v]

\* The commitment of P left in place when both branches have failed.
RestoreSkipped(m, P) == m

\* model[P] = "Free"
Restore(m, P) == [m EXCEPT ![P] = "Free"]

\* The popped entry not put back when both branches have failed.
PushBackDropped(heap, entry) == [ok |-> TRUE, heap |-> heap]

\* heapq.heappush(symbols, (cnt, P))
PushBack(heap, entry) == heappush(heap, entry)

\* A frame of DPLL: its clause list, its unsatisfied_clauses, the popped
\* heap entry (cnt, P) and the place the frame is at.
NoEntry == [imp |-> 0, ncnt |-> 0, lit |-> 0]
NewFrame(clauses) ==
    [clauses |-> clauses, unsatisfied_clauses |-> <<>>, entry |-> NoEntry, at |-> "scan"]

Top == stack[Len(stack)]
Caller == SubSeq(stack, 1, Len(stack) - 1)

\* The shared model and heap as an invocation finds them when it is entered.
Snapshot(m, heap) == [model |-> m, symbols |-> heap]
\* The invocation that returns: its clause list and what it found at entry.
Returning ==
    <<[clauses |-> Top.clauses,
       model |-> entered[Len(entered)].model,
       symbols |-> entered[Len(entered)].symbols]>>
Left == SubSeq(entered, 1, Len(entered) - 1)

\* No call of clauseSatisfied on its own is under way.
NoEval == [written |-> <<>>, order |-> <<>>, m |-> <<>>, m0 |-> <<>>, out |-> "idle"]

----------------------------------------------------------------------------
Init ==
    /\ kb \in KBs
    /\ kb0 = kb
    /\ symbols = {}
    /\ model = <<>>
    /\ stack = <<>>
    /\ ret = "none"
    /\ pc = "start"
    /\ result = "none"
    /\ first = "none"
    /\ entered = <<>>
    /\ returned = <<>>
    /\ pushedBack = {}
    /\ eval = NoEval

\* DPLLSatisfiable(kb) up to the call of DPLL.
DPLLSatisfiable ==
    /\ pc = "start"
    /\ LET r == BuildSymbols(kb)
       IN IF ~r.ok
          THEN /\ pc' = "error"
               /\ entered' = <<>>
               /\ UNCHANGED <<symbols, model, stack>>
          ELSE /\ pc' = "search"
               /\ symbols' = r.heap
               /\ model' = FreeModel(kb)
               /\ stack' = <<NewFrame(kb)>>
               /\ entered' = <<Snapshot(FreeModel(kb), r.heap)>>
    /\ ret' = "none"
    /\ returned' = <<>>
    /\ pushedBack' = {}
    /\ UNCHANGED <<kb, result, kb0, first, eval>>

\* DPLL: the evaluation loop of a frame just entered.
Scan ==
    /\ pc = "search" /\ stack # <<>> /\ Top.at = "scan"
    /\ LET r == ScanClauses(Top.clauses, model, 1, <<>>)
       IN IF r.ret = "fall"
          THEN /\ stack' = Append(Caller,
                       [Top EXCEPT !.unsatisfied_clauses = r.unsatisfied_clauses,
                                   !.at = "choose"])
               /\ ret' = "none"
               /\ UNCHANGED <<entered, returned>>
          ELSE /\ stack' = Caller
               /\ ret' = r.ret
               /\ entered' = Left
               /\ returned' = Returning
    /\ UNCHANGED <<kb, symbols, model, pc, result, kb0, first, pushedBack, eval>>

\* DPLL: len(symbols) > 0, pop P, model[P] = True, first recursive call.
BranchTrue ==
    /\ pc = "search" /\ stack # <<>> /\ Top.at = "choose"
    /\ Cardinality(symbols) > 0
    /\ LET e == heappop(symbols)
       IN /\ symbols' = heappopRest(symbols)
          /\ model' = Commit(model, e.lit, "True")
          /\ stack' = Append(Append(Caller, [Top EXCEPT !.entry = e, !.at = "afterTrue"]),
                             NewFrame(Top.unsatisfied_clauses))
    /\ entered' = Append(entered, Snapshot(model', symbols'))
    /\ ret' = "none"
    /\ returned' = <<>>
    /\ UNCHANGED <<kb, pc, result, kb0, first, pushedBack, eval>>

\* DPLL: len(symbols) = 0, return the default satisfiable = False.
NoSymbols ==
    /\ pc = "search" /\ stack # <<>> /\ Top.at = "choose"
    /\ Cardinality(symbols) = 0
    /\ stack' = Caller
    /\ ret' = "False"
    /\ entered' = Left
    /\ returned' = Returning
    /\ UNCHANGED <<kb, symbols, model, pc, result, kb0, first, pushedBack, eval>>

\* DPLL: the first recursive call has returned.
AfterTrue ==
    /\ pc = "search" /\ stack # <<>> /\ Top.at = "afterTrue" /\ ret # "none"
    /\ IF ret = "True"
       THEN /\ stack' = Caller
            /\ entered' = Left
            /\ returned' = Returning
            /\ UNCHANGED <<model, ret>>
       ELSE /\ model' = Commit(model, Top.entry.lit, "False")
            /\ stack' = Append(Append(Caller, [Top EXCEPT !.at = "afterFalse"]),
                               NewFrame(Top.unsatisfied_clauses))
            /\ entered' = Append(entered, Snapshot(model', symbols))
            /\ returned' = <<>>
            /\ ret' = "none"
    /\ UNCHANGED <<kb, symbols, pc, result, kb0, first, pushedBack, eval>>

\* The branching written as `while len(symbols) > 0` in place of `if`: after
\* the push back the frame pops again instead of returning.
AfterFalseRetry ==
    /\ pc = "search" /\ stack # <<>> /\ Top.at = "afterFalse" /\ ret # "none"
    /\ IF ret = "True"
       THEN /\ stack' = Caller
            /\ entered' = Left
            /\ returned' = Returning
            /\ UNCHANGED <<model, symbols, ret, pc, pushedBack>>
       ELSE LET r == PushBack(symbols, Top.entry)
            IN /\ model' = Restore(model, Top.entry.lit)
               /\ symbols' = r.heap
               /\ stack' = Append(Caller, [Top EXCEPT !.at = "choose"])
               /\ ret' = "none"
               /\ returned' = <<>>
               /\ pushedBack' = pushedBack \cup {Top.entry.lit}
               /\ UNCHANGED <<pc, entered>>
    /\ UNCHANGED <<kb, result, kb0, first, eval>>

\* DPLL: the second recursive call has returned.
AfterFalse ==
    /\ pc = "search" /\ stack # <<>> /\ Top.at = "afterFalse" /\ ret # "none"
    /\ IF ret = "True"
       THEN /\ stack' = Caller
            /\ entered' = Left
            /\ returned' = Returning
            /\ UNCHANGED <<model, symbols, ret, pc, pushedBack>>
       ELSE LET r == PushBack(symbols, Top.entry)
            IN /\ model' = Restore(model, Top.entry.lit)
               /\ IF r.ok
                  THEN /\ symbols' = r.heap
                       /\ stack' = Caller
                       /\ ret' = "False"
                       /\ pc' = pc
                       /\ entered' = Left
                       /\ returned' = Returning
                       /\ pushedBack' = pushedBack \cup {Top.entry.lit}
                  ELSE /\ pc' = "error"
                       /\ UNCHANGED <<symbols, stack, ret, entered, returned, pushedBack>>
    /\ UNCHANGED <<kb, result, kb0, first, eval>>

\* The outermost DPLL has returned: DPLLSatisfiable returns its result.
Return ==
    /\ pc = "search" /\ stack = <<>> /\ ret # "none"
    /\ pc' = "done"
    /\ result' = ret
    /\ ret' = "none"
    /\ returned' = <<>>
    /\ UNCHANGED <<kb, symbols, model, stack, kb0, first, entered, pushedBack, eval>>

Next ==
    \/ DPLLSatisfiable
    \/ Scan
    \/ BranchTrue
    \/ NoSymbols
    \/ AfterTrue
    \/ AfterFalse
    \/ Return

Spec == Init /\ [][Next]_vars

----------------------------------------------------------------------------
\* What a finished call of DPLLSatisfiable gave its caller: the satisfiable
\* value it returned, or the TypeError it raised.
Outcome == IF pc = "error" THEN "TypeError" ELSE result

\* The caller calls DPLLSatisfiable a second time on the same kb value.
CallAgain ==
    /\ pc \in {"done", "error"} /\ first = "none"
    /\ first' = Outcome
    /\ pc' = "start"
    /\ result' = "none"
    /\ UNCHANGED <<kb, symbols, model, stack, ret, kb0, entered, returned, pushedBack, eval>>

NextTwice == Next \/ CallAgain

SpecTwice == Init /\ [][NextTwice]_vars

\* The caller calls DPLLSatisfiable a second time on a kb holding the same
\* clauses in another order.
CallPermuted ==
    /\ pc \in {"done", "error"} /\ first = "none"
    /\ first' = Outcome
    /\ kb' \in {[i \in DOMAIN kb |-> kb[p[i]]] : p \in Permutations(DOMAIN kb)}
    /\ pc' = "start"
    /\ result' = "none"
    /\ UNCHANGED <<symbols, model, stack, ret, kb0, entered, returned, pushedBack, eval>>

NextPerm == Next \/ CallPermuted

SpecPerm == Init /\ [][NextPerm]_vars

\* DPLLSatisfiable is sequential code: a step that can be taken is taken.
SpecLive == Init /\ [][Next]_vars /\ WF_vars(Next)

----------------------------------------------------------------------------
\* clauseSatisfied on its own: a clause display, the order its set is
\* visited in, and a model that may lack some of the names.
Written == UNION {[1..n -> Literal] : n \in 0..MaxLits}

Orders(clause) ==
    {o \in [1..Cardinality(clause) -> clause] :
        \A i, j \in DOMAIN o : o[i] = o[j] => i = j}

Models == UNION {[D -> {"True", "False", "Free"}] : D \in SUBSET Names}

InitEval ==
    /\ kb = <<>>
    /\ kb0 = <<>>
    /\ symbols = {}
    /\ model = <<>>
    /\ stack = <<>>
    /\ ret = "none"
    /\ pc = "eval"
    /\ result = "none"
    /\ first = "none"
    /\ entered = <<>>
    /\ returned = <<>>
    /\ pushedBack = {}
    /\ \E w \in Written, m \in Models :
          \E o \in Orders(MakeClause(w)) :
             eval = [written |-> w, order |-> o, m |-> m, m0 |-> m, out |-> "none"]

\* The call clauseSatisfied(clause, m): the loop returns a value and assigns
\* nothing to m.
Evaluate ==
    /\ pc = "eval" /\ eval.out = "none"
    /\ eval' = [eval EXCEPT !.out = ScanLiterals(eval.order, eval.m, 1, FALSE)]
    /\ UNCHANGED <<kb, symbols, model, stack, ret, pc, result, kb0, first,
                   entered, returned, pushedBack>>

NextEval == Evaluate

SpecEval == InitEval /\ [][NextEval]_vars

----------------------------------------------------------------------------
\* Reference notions the claims are stated with.

\* Some total True/False assignment of the names makes every clause true.
SatisfiableKB(clauses) ==
    \E a \in [Names -> BOOLEAN] :
        \A i \in DOMAIN clauses : \E l \in clauses[i] : a[l.name] = l.sign

AllFree == \A s \in DOMAIN model : model[s] = "Free"

Importance(s) == QueueEntry(kb, s).imp

HasPureAndRest ==
    /\ \E s \in DOMAIN symbols_ranking(kb) : Importance(s) = PURE
    /\ \E s \in DOMAIN symbols_ranking(kb) : Importance(s) = REST

Queued(s) == \E e \in symbols : e.lit = s

NoEmptyClause == \A i \in DOMAIN kb : kb[i] # {}

----------------------------------------------------------------------------
\* C1: whenever DPLLSatisfiable returns satisfiable = True, every clause of
\* the kb evaluates to Satisfied (clauseSatisfied gives True) under the
\* returned model.
C1_ReturnedModelSatisfiesAll ==
    (pc = "done" /\ result = "True") =>
        \A i \in DOMAIN kb : clauseSatisfied(kb[i], model) = "True"

\* C2: for every kb that no total assignment satisfies, DPLLSatisfiable
\* returns satisfiable = False.
C2_UnsatisfiableReturnsFalse ==
    (pc = "done" /\ ~SatisfiableKB(kb)) => result = "False"

\* C3: for every kb that some total assignment satisfies, DPLLSatisfiable
\* returns satisfiable = True.
C3_SatisfiableReturnsTrue ==
    (pc = "done" /\ SatisfiableKB(kb)) => result = "True"

\* C4: whenever DPLLSatisfiable returns satisfiable = False, every entry of
\* the returned model is 'Free'.
C4_FalseLeavesAllFree ==
    (pc = "done" /\ result = "False") => AllFree

\* A search that tried branches (no clause is empty, so the top-level scan
\* did not fail at once) has returned False with a non-empty model.
C4_Witness ==
    /\ pc = "done" /\ result = "False"
    /\ DOMAIN model # {}
    /\ NoEmptyClause

\* C5: there is no exception path: no run of DPLLSatisfiable ends in an
\* error while building the heap or searching.
C5_NoExceptionPath == pc # "error"

\* C6: for the empty kb DPLLSatisfiable returns (True, empty model).
C6_EmptyKBSatisfiable ==
    (pc = "done" /\ kb = <<>>) => (result = "True" /\ DOMAIN model = {})

\* C7: for every kb holding an empty clause at any position, DPLLSatisfiable
\* returns (False, model) with every entry of the model 'Free'.
C7_EmptyClauseReturnsFalse ==
    (pc \in {"done", "error"} /\ ~NoEmptyClause) =>
        (pc = "done" /\ result = "False" /\ AllFree)

\* C8: the satisfiable value does not depend on the order of the clauses: a
\* call on a permutation of the kb returns the same boolean as the call on
\* the kb.
C8_ClauseOrderIrrelevant ==
    (pc = "done" /\ first \in {"True", "False"}) => result = first

\* C9: for every kb with a PURE and a REST symbol, the heap is built and
\* every PURE symbol is popped and committed before any REST symbol is
\* popped.
C9_PureBeforeRest ==
    (HasPureAndRest /\ pc # "start") =>
        /\ pc # "error"
        /\ (\E s \in DOMAIN model : Importance(s) = REST /\ ~Queued(s)) =>
               \A s \in DOMAIN model : Importance(s) = PURE => ~Queued(s)

\* C10: a second call of DPLLSatisfiable on the same kb value ends as the
\* first call did: nothing of the first call's model or heap reaches it.
C10_SecondCallSame ==
    (first # "none" /\ kb = kb0 /\ pc \in {"done", "error"}) => Outcome = first

\* Both calls have searched and returned True, the second one with a symbol
\* committed.
C10_Witness ==
    /\ first = "True" /\ kb = kb0
    /\ pc = "done" /\ result = "True"
    /\ \E s \in DOMAIN model : model[s] # "Free"

----------------------------------------------------------------------------
\* Notions the claims C11 to C20 are stated with.

KBSymbols == DOMAIN symbols_ranking(kb)

Count(s) == symbols_ranking(kb)[s]

InUnitClause(s) ==
    \E i \in DOMAIN kb : Cardinality(kb[i]) = 1 /\ \E l \in kb[i] : l.name = s

\* The frames that have popped a symbol.
Popped == {i \in DOMAIN stack : stack[i].at \in {"afterTrue", "afterFalse"}}

\* How far the search has come: the places of the frames, outermost first,
\* read as the digits of a number in base 5, with a last digit 4 for a frame
\* that has just returned.
PositionDigits == NumSyms + 2
PlaceDigit(at) ==
    CASE at = "scan" -> 0
      [] at = "choose" -> 1
      [] at = "afterTrue" -> 2
      [] at = "afterFalse" -> 3
RECURSIVE PlaceSum(_)
PlaceSum(i) ==
    IF i = 0 THEN 0
    ELSE PlaceSum(i - 1) + PlaceDigit(stack[i].at) * 5 ^ (PositionDigits - i)
Position ==
    CASE pc = "start" -> -1
      [] pc = "search" ->
            PlaceSum(Len(stack))
            + (IF ret # "none"
               THEN 4 * 5 ^ (PositionDigits - Len(stack) - 1)
               ELSE 0)
      [] OTHER -> 5 ^ PositionDigits

\* The guards of the actions of Next: DPLLSatisfiable at "start"; during the
\* search Return with no frame left, Scan, BranchTrue or NoSymbols of the
\* innermost frame, AfterTrue or AfterFalse of a frame whose callee returned.
CanStep ==
    \/ pc = "start"
    \/ /\ pc = "search"
       /\ IF stack = <<>> THEN ret # "none"
          ELSE \/ Top.at \in {"scan", "choose"}
               \/ Top.at \in {"afterTrue", "afterFalse"} /\ ret # "none"

\* Satisfied / Pending / Falsified as the claims define them.
Expected(clause, m) ==
    IF \E l \in clause :
          l.name \in DOMAIN m /\ m[l.name] = (IF l.sign THEN "True" ELSE "False")
    THEN "True"
    ELSE IF \E l \in clause : l.name \in DOMAIN m /\ m[l.name] = "Free"
         THEN "None"
         ELSE "False"

Evaluated == eval.out \in {"True", "False", "None"}

\* The names written with both polarities in the clause display.
BothPolarities ==
    {s \in Names : \E i, j \in DOMAIN eval.written :
        /\ eval.written[i].name = s /\ eval.written[j].name = s
        /\ eval.written[i].sign /\ ~eval.written[j].sign}

----------------------------------------------------------------------------
\* C11: a symbol that is not PURE and occurs in a clause of length 1 of the
\* kb is queued with importance UNIT.
C11_UnitSymbolsQueuedAsUnit ==
    pc = "search" =>
        \A e \in symbols :
            (Cardinality(pure_symbols(kb, e.lit)) # 1 /\ InUnitClause(e.lit))
                => e.imp = UNIT

\* C12: an invocation of DPLL that returns False leaves the shared model and
\* the shared heap as they were when it was entered; the P = False branch is
\* entered in the state the P = True branch was entered in, but for model[P].
C12_FalseReturnRestores ==
    pc = "search" =>
        /\ ret = "False" =>
              /\ model = returned[1].model
              /\ symbols = returned[1].symbols
        /\ \A i \in DOMAIN stack :
              (stack[i].at = "afterFalse" /\ i < Len(stack)) =>
                  /\ entered[i + 1].model =
                        [entered[i].model EXCEPT ![stack[i].entry.lit] = "False"]
                  /\ entered[i + 1].symbols = entered[i].symbols \ {stack[i].entry}
                  /\ entered[i].model[stack[i].entry.lit] = "Free"

\* An invocation whose first clause was pending at entry has returned False
\* after both of its branches failed and its symbol was pushed back.
C12_Witness ==
    /\ pc = "search" /\ ret = "False"
    /\ pushedBack # {}
    /\ returned[1].clauses # <<>>
    /\ clauseSatisfied(returned[1].clauses[1], returned[1].model) = "None"

C16_BothPolaritiesNeverFalsified ==
    Evaluated =>
        \A s \in BothPolarities :
            s \in DOMAIN eval.m =>
                /\ eval.out # "False"
                /\ eval.m[s] # "Free" => eval.out = "True"

\* C17: the number of invocations of DPLL nested below the outermost one is
\* at most the number of distinct symbols of the kb; each belongs to one
\* distinct symbol that is popped and committed.
C17_DepthBound ==
    pc = "search" =>
        /\ Len(stack) - 1 <= Cardinality(KBSymbols)
        /\ \A i \in DOMAIN stack : i < Len(stack) =>
              /\ i \in Popped
              /\ model[stack[i].entry.lit] # "Free"
              /\ ~Queued(stack[i].entry.lit)
        /\ \A i, j \in Popped : stack[i].entry.lit = stack[j].entry.lit => i = j

\* The recursion is as deep as the kb has symbols.
C17_Witness ==
    /\ pc = "search"
    /\ Cardinality(KBSymbols) = NumSyms
    /\ Len(stack) - 1 = Cardinality(KBSymbols)

\* C18: when an invocation of DPLL is entered and when it returns, the model
\* has exactly the symbols of the kb as its keys, and a symbol is in the heap
\* iff its entry is 'Free'.
C18_QueueIffFree ==
    (pc = "search" /\ (ret # "none" \/ (stack # <<>> /\ Top.at = "scan"))) =>
        /\ DOMAIN model = KBSymbols
        /\ \A s \in KBSymbols : Queued(s) <=> model[s] = "Free"
        /\ \A e, f \in symbols : e.lit = f.lit => e = f

\* An invocation is entered with one symbol committed and another one still
\* in the heap.
C18_Witness ==
    /\ pc = "search" /\ stack # <<>> /\ Top.at = "scan"
    /\ \E s \in KBSymbols : model[s] # "Free"
    /\ \E s \in KBSymbols : model[s] = "Free" /\ Queued(s)

\* C19: every call of DPLLSatisfiable comes to an end: every step moves the
\* search forward in the tree of its invocations (Position grows and is
\* bounded, so no state is visited twice, also not after a push back), and
\* a call that has not ended can always take a step.
C19_Terminates ==
    /\ [][Position' > Position]_vars
    /\ [](Position <= 5 ^ PositionDigits)
    /\ [](pc \notin {"done", "error"} => CanStep)

\* A search in which a symbol failed on both values and was pushed back has
\* come to its end.
C19_Witness == pc = "done" /\ pushedBack # {}

\* C20: whenever DPLLSatisfiable returns True on a kb that is not empty, the
\* first clause of the kb is Satisfied under the returned model.
C20_FirstClauseSatisfied ==
    (pc = "done" /\ result = "True" /\ kb # <<>>) =>
        clauseSatisfied(kb[1], model) = "True"

\* True was returned although a later clause of the kb is Falsified under
\* the returned model.
C20_Witness ==
    /\ pc = "done" /\ result = "True" /\ kb # <<>>
    /\ \E i \in 2..Len(kb) : clauseSatisfied(kb[i], model) = "False"

====
